---- MODULE Spec2Model ----
(***************************************************************************)
(* Flatmap SVG exporter (src/src/cmlibs/exporter/flatmapsvg.py).           *)
(*                                                                         *)
(* The export of one scene is a straight-line pipeline:                    *)
(*   _analyze_elements -> _calculate_bezier_control_points ->              *)
(*   _calculate_markers -> _write_into_svg_format -> features + two files. *)
(* The Zinc engine is an opaque read-only data source: the answer to each  *)
(* query the code issues (next element of the iterator, containment of an  *)
(* element in a mesh group, the marker datapoints) is drawn when the query *)
(* is issued, and what was read is kept in the state (elements,            *)
(* datapoints) so that the properties can refer to it.                     *)
(*                                                                         *)
(* Numbers are exact rationals <<n, d>> in lowest terms (the rounding of   *)
(* Python floats is not modelled).  Python's None is the record None; a    *)
(* retrieved parameter vector v is Some(v).  A dict is the sequence of its *)
(* [key, value] entries in insertion order, which is the order Python      *)
(* iterates it in.                                                         *)
(***************************************************************************)
EXTENDS Integers, Sequences, FiniteSets, TLC

VARIABLES
    pc,           \* position of the export in export_flatmapsvg_from_scene
    group_list,   \* get_group_list(fm): the groups' names, in enumeration order
    mesh_size,    \* mesh.getSize() of the 1-D mesh
    elements,     \* the elements the iterator has yielded so far, as read
    groups,       \* _analyze_elements: the dict under construction
    path_points,  \* what _analyze_elements returned
    bezier,       \* what _calculate_bezier_control_points returned
    datapoints,   \* the marker datapoints, as read by _calculate_markers
    markers,      \* what _calculate_markers returned
    svg_string,   \* what _write_into_svg_format returned
    files,        \* the files written: name -> content
    exception,    \* the exception that escaped the export, "" if none
    bpc,          \* position of a single call of _calculate_bezier_curve
    pt_1, pt_2,   \* its arguments
    curve         \* its result

vars == <<pc, group_list, mesh_size, elements, groups, path_points, bezier,
          datapoints, markers, svg_string, files, exception,
          bpc, pt_1, pt_2, curve>>

exportVars == <<pc, group_list, mesh_size, elements, groups, path_points,
                bezier, datapoints, markers, svg_string, files, exception>>

curveVars == <<bpc, pt_1, pt_2, curve>>

-----------------------------------------------------------------------------
(* Bounds of the model.                                                    *)

MaxElements == 2

MaxGroups == 2

MaxMarkers == 1

-----------------------------------------------------------------------------
(* Exact rational arithmetic.                                              *)

Abs(n) == IF n < 0 THEN -n ELSE n

RECURSIVE GCD(_, _)
GCD(a, b) == IF b = 0 THEN a ELSE GCD(b, a % b)

Rat(n, d) ==
    LET g == GCD(Abs(n), Abs(d))
        s == IF d < 0 THEN -1 ELSE 1
    IN  <<(s * n) \div g, (s * d) \div g>>

R(n) == <<n, 1>>

RAdd(p, q) == Rat(p[1] * q[2] + q[1] * p[2], p[2] * q[2])

RSub(p, q) == Rat(p[1] * q[2] - q[1] * p[2], p[2] * q[2])

RMul(p, q) == Rat(p[1] * q[1], p[2] * q[2])

RDiv(p, q) == Rat(p[1] * q[2], p[2] * q[1])

(* cmlibs.maths.vectorops, as flatmapsvg.py uses it: component-wise.       *)
sub(u, v) == [i \in 1..Len(u) |-> RSub(u[i], v[i])]

add(u, v) == [i \in 1..Len(u) |-> RAdd(u[i], v[i])]

div(u, f) == [i \in 1..Len(u) |-> RDiv(u[i], R(f))]

(* Python's v[:2].                                                         *)
Slice2(v) == SubSeq(v, 1, IF Len(v) < 2 THEN Len(v) ELSE 2)

-----------------------------------------------------------------------------
(* None and retrieved values.                                              *)

None == [none |-> TRUE, v |-> <<>>]

Some(v) == [none |-> FALSE, v |-> v]

-----------------------------------------------------------------------------
(* _calculate_bezier_curve.  A point pt is <<values, derivatives>>.        *)

(* pt[0][:2] and pt[1][:2] raise TypeError when the operand is None.       *)
bezier_curve_raises(p1, p2) ==
    p1[1].none \/ p1[2].none \/ p2[1].none \/ p2[2].none

calculate_bezier_curve_b1_plus(p1, p2) ==
    LET h0 == Slice2(p1[1].v)
        v0 == Slice2(p1[2].v)
        h1 == Slice2(p2[1].v)
        v1 == Slice2(p2[2].v)
    IN  <<h0, add(h0, div(v0, 3)), add(h1, div(v1, 3)), h1>>

calculate_bezier_curve_b2_minus(p1, p2) ==
    LET h0 == Slice2(p1[1].v)
        v0 == Slice2(p1[2].v)
        h1 == Slice2(p2[1].v)
        v1 == Slice2(p2[2].v)
    IN  <<h0, sub(h0, div(v0, 3)), sub(h1, div(v1, 3)), h1>>

calculate_bezier_curve(p1, p2) ==
    LET h0 == Slice2(p1[1].v)
        v0 == Slice2(p1[2].v)
        h1 == Slice2(p2[1].v)
        v1 == Slice2(p2[2].v)
        b0 == h0
        b1 == sub(h0, div(v0, 3))
        b2 == add(h1, div(v1, 3))
        b3 == h1
    IN  <<b0, b1, b2, b3>>

-----------------------------------------------------------------------------
(* One call of _calculate_bezier_curve on an arbitrary segment.            *)

CoordValues == {0, 3, 10}

Vectors(components_count) ==
    IF components_count = 2
    THEN {<<R(x), R(y)>> : x \in CoordValues, y \in CoordValues}
    ELSE {<<R(x), R(y), R(5)>> : x \in CoordValues, y \in CoordValues}

Parameters(components_count) ==
    {None} \cup {Some(v) : v \in Vectors(components_count)}

Idle ==
    /\ pc = "idle"
    /\ group_list = <<>>
    /\ mesh_size = 0
    /\ elements = <<>>
    /\ groups = <<>>
    /\ path_points = <<>>
    /\ bezier = <<>>
    /\ datapoints = <<>>
    /\ markers = <<>>
    /\ svg_string = <<>>
    /\ files = <<>>
    /\ exception = ""

CurveIdle ==
    /\ bpc = "idle"
    /\ pt_1 = <<None, None>>
    /\ pt_2 = <<None, None>>
    /\ curve = <<>>

InitCurve ==
    /\ Idle
    /\ bpc = "call"
    /\ curve = <<>>
    /\ \E components_count \in {2, 3} :
         /\ pt_1 \in Parameters(components_count) \X Parameters(components_count)
         /\ pt_2 \in Parameters(components_count) \X Parameters(components_count)

CurveReturn ==
    /\ bpc = "call"
    /\ ~bezier_curve_raises(pt_1, pt_2)
    /\ curve' = calculate_bezier_curve(pt_1, pt_2)
    /\ bpc' = "returned"
    /\ UNCHANGED <<pt_1, pt_2>>
    /\ UNCHANGED exportVars

CurveRaise ==
    /\ bpc = "call"
    /\ bezier_curve_raises(pt_1, pt_2)
    /\ bpc' = "raised"
    /\ UNCHANGED <<pt_1, pt_2, curve>>
    /\ UNCHANGED exportVars

NextCurve == CurveReturn \/ CurveRaise

SpecCurve == InitCurve /\ [][NextCurve]_vars

-----------------------------------------------------------------------------
(* Python dicts: a sequence of [key, value] entries in insertion order.    *)

DictHas(d, k) == \E i \in 1..Len(d) : d[i].key = k

DictGet(d, k) == d[CHOOSE i \in 1..Len(d) : d[i].key = k].value

DictSet(d, k, v) ==
    IF DictHas(d, k)
    THEN [i \in 1..Len(d) |-> IF d[i].key = k THEN [key |-> k, value |-> v] ELSE d[i]]
    ELSE Append(d, [key |-> k, value |-> v])

DictKeys(d) == [i \in 1..Len(d) |-> d[i].key]

(* str.endswith("_name")                                                   *)
endswith_name(s) == Len(s) >= 5 /\ SubSeq(s, Len(s) - 4, Len(s)) = "_name"

-----------------------------------------------------------------------------
(* The Zinc queries the analyzer issues.  An element field template is the *)
(* sequence of its functions, each with its number of terms and, for term  *)
(* 1, the local node index and the node version.  A node holds, for each   *)
(* value label, the parameter vectors of its versions.                     *)

RESULT_OK == 1

getNumberOfFunctions(eft) == Len(eft)

getFunctionNumberOfTerms(eft, f) == eft[f].terms

getTermLocalNodeIndex(eft, f, term) ==
    IF f \in 1..Len(eft) /\ term \in 1..eft[f].terms THEN eft[f].ln ELSE 0

getTermNodeVersion(eft, f, term) ==
    IF f \in 1..Len(eft) /\ term \in 1..eft[f].terms THEN eft[f].version ELSE 0

InvalidNode == [valid |-> FALSE, VALUE |-> <<>>, D_DS1 |-> <<>>]

getNode(element, ln) ==
    IF ln \in 1..Len(element.nodes) THEN element.nodes[ln] ELSE InvalidNode

getNodeParameters(node, node_parameter, version) ==
    LET stored == IF node_parameter = "VALUE" THEN node.VALUE ELSE node.D_DS1
    IN  IF version \in 1..Len(stored)
        THEN [result |-> RESULT_OK, values |-> stored[version]]
        ELSE [result |-> 0, values |-> <<>>]

(* _get_node_data                                                          *)
get_node_data(node, node_parameter, version) ==
    IF node.valid
    THEN LET r == getNodeParameters(node, node_parameter, version)
         IN  IF r.result = RESULT_OK THEN Some(r.values) ELSE None
    ELSE None

(* _get_parameters_from_eft                                                *)
get_parameters_from_eft(element, first) ==
    LET start_fn == IF first THEN 0 ELSE 2
        ln == getTermLocalNodeIndex(element.eft, start_fn + 1, 1)
        node_1 == getNode(element, ln)
        values == get_node_data(node_1, "VALUE",
                                getTermNodeVersion(element.eft, start_fn + 1, 1))
        derivatives == get_node_data(node_1, "D_DS1",
                                     getTermNodeVersion(element.eft, start_fn + 2, 1))
    IN  <<values, derivatives>>

(* The curve segment of an element:                                        *)
(* [(values_1, derivatives_1), (values_2, derivatives_2)].                 *)
segment_of(element) ==
    <<get_parameters_from_eft(element, TRUE), get_parameters_from_eft(element, FALSE)>>

(* The elements a mesh may hold.                                           *)
Fn(terms, ln) == [terms |-> terms, ln |-> ln, version |-> 1]

HermiteEft == <<Fn(1, 1), Fn(1, 1), Fn(1, 2), Fn(1, 2)>>

LinearEft == <<Fn(1, 1), Fn(1, 2)>>

AveragedEft == <<Fn(1, 1), Fn(1, 1), Fn(2, 2), Fn(1, 2)>>

NodeA == [valid |-> TRUE, VALUE |-> << <<R(0), R(0), R(5)>> >>,
          D_DS1 |-> << <<R(3), R(0), R(0)>> >>]

NodeB == [valid |-> TRUE, VALUE |-> << <<R(10), R(0), R(5)>> >>,
          D_DS1 |-> << <<R(3), R(0), R(0)>> >>]

NodeNoDerivative == [valid |-> TRUE, VALUE |-> << <<R(10), R(3), R(5)>> >>,
                     D_DS1 |-> <<>>]

ElementSamples ==
    { [eft |-> HermiteEft, nodes |-> <<NodeA, NodeB>>],
      [eft |-> HermiteEft, nodes |-> <<NodeA, NodeNoDerivative>>],
      [eft |-> HermiteEft, nodes |-> <<NodeA>>],
      [eft |-> LinearEft, nodes |-> <<NodeA, NodeB>>],
      [eft |-> AveragedEft, nodes |-> <<NodeA, NodeB>>] }

-----------------------------------------------------------------------------
(* _analyze_elements                                                       *)

group_label(group_index) == "group_" \o ToString(group_index + 1)

(* The first loop over group_list: the labels and the names.               *)
RECURSIVE label_groups(_, _, _)
label_groups(gl, group_index, d) ==
    IF group_index >= Len(gl) THEN d
    ELSE LET group_name == gl[group_index + 1]
         IN  label_groups(gl, group_index + 1,
                 IF group_name # "marker"
                 THEN DictSet(DictSet(d, group_label(group_index), <<>>),
                              group_label(group_index) \o "_name", group_name)
                 ELSE d)

(* The shape test: status = [function_count == 4] + [term_count == 1 ...]. *)
all_status_no_count(eft) ==
    \A f \in 1..getNumberOfFunctions(eft) : getFunctionNumberOfTerms(eft, f) = 1

all_status(eft) ==
    /\ getNumberOfFunctions(eft) = 4
    /\ \A f \in 1..getNumberOfFunctions(eft) : getFunctionNumberOfTerms(eft, f) = 1

(* The membership loop of one accepted element: containing is the set of   *)
(* indexes (from 0) of the groups whose mesh group contains the element.   *)
(* groups[group_label].append raises KeyError when the label is no key.    *)
RECURSIVE membership_loop_break(_, _, _, _, _)
membership_loop_break(gl, group_index, containing, seg, acc) ==
    IF group_index >= Len(gl) \/ acc.in_group THEN acc
    ELSE IF group_index \in containing
         THEN IF ~DictHas(acc.groups, group_label(group_index))
              THEN [acc EXCEPT !.raised = TRUE]
              ELSE membership_loop_break(gl, group_index + 1, containing, seg,
                       [groups |-> DictSet(acc.groups, group_label(group_index),
                                     Append(DictGet(acc.groups, group_label(group_index)), seg)),
                        in_group |-> TRUE, raised |-> FALSE])
         ELSE membership_loop_break(gl, group_index + 1, containing, seg, acc)

RECURSIVE membership_loop(_, _, _, _, _)
membership_loop(gl, group_index, containing, seg, acc) ==
    IF group_index >= Len(gl) THEN acc
    ELSE IF group_index \in containing
         THEN IF ~DictHas(acc.groups, group_label(group_index))
              THEN [acc EXCEPT !.raised = TRUE]
              ELSE membership_loop(gl, group_index + 1, containing, seg,
                       [groups |-> DictSet(acc.groups, group_label(group_index),
                                     Append(DictGet(acc.groups, group_label(group_index)), seg)),
                        in_group |-> TRUE, raised |-> FALSE])
         ELSE membership_loop(gl, group_index + 1, containing, seg, acc)

(* Lines 149-171: the early returns and the labelling of the groups.       *)
AnalyzeStartNoEarlyReturn ==
    /\ pc = "analyze"
    /\ groups' = label_groups(group_list, 0, <<[key |-> "ungrouped", value |-> <<>>]>>)
    /\ pc' = "elements"
    /\ UNCHANGED <<group_list, mesh_size, elements, path_points, bezier, datapoints,
                   markers, svg_string, files, exception>>
    /\ UNCHANGED curveVars

AnalyzeStart ==
    /\ pc = "analyze"
    /\ IF mesh_size = 0
       THEN /\ path_points' = <<>>
            /\ pc' = "bezier"
            /\ UNCHANGED groups
       ELSE /\ groups' = label_groups(group_list, 0,
                             <<[key |-> "ungrouped", value |-> <<>>]>>)
            /\ pc' = "elements"
            /\ UNCHANGED path_points
    /\ UNCHANGED <<group_list, mesh_size, elements, bezier, datapoints, markers,
                   svg_string, files, exception>>
    /\ UNCHANGED curveVars

(* Lines 174-200: one iteration of the loop over the elements.  What the   *)
(* iterator yields, and the groups that contain it when the element is     *)
(* accepted and the code asks, are recorded in elements.                   *)
AnalyzeElement ==
    /\ pc = "elements"
    /\ Len(elements) < mesh_size
    /\ \E element \in ElementSamples, containing \in SUBSET (0..(Len(group_list) - 1)) :
         IF all_status(element.eft)
         THEN LET seg == segment_of(element)
                  r == membership_loop(group_list, 0, containing, seg,
                           [groups |-> groups, in_group |-> FALSE, raised |-> FALSE])
              IN  /\ elements' = Append(elements,
                         [eft |-> element.eft, nodes |-> element.nodes,
                          containing |-> containing])
                  /\ IF r.raised
                     THEN /\ pc' = "raised"
                          /\ exception' = "KeyError"
                          /\ groups' = r.groups
                     ELSE /\ groups' = IF r.in_group THEN r.groups
                                       ELSE DictSet(r.groups, "ungrouped",
                                                Append(DictGet(r.groups, "ungrouped"), seg))
                          /\ UNCHANGED <<pc, exception>>
         ELSE /\ elements' = Append(elements,
                     [eft |-> element.eft, nodes |-> element.nodes, containing |-> {}])
              /\ UNCHANGED <<groups, pc, exception>>
    /\ UNCHANGED <<group_list, mesh_size, path_points, bezier, datapoints, markers,
                   svg_string, files>>
    /\ UNCHANGED curveVars

(* Line 202: the iterator is exhausted; return groups.                     *)
AnalyzeReturn ==
    /\ pc = "elements"
    /\ Len(elements) = mesh_size
    /\ path_points' = groups
    /\ pc' = "bezier"
    /\ UNCHANGED <<group_list, mesh_size, elements, groups, bezier, datapoints, markers,
                   svg_string, files, exception>>
    /\ UNCHANGED curveVars

-----------------------------------------------------------------------------
(* _calculate_bezier_control_points                                        *)

(* The keys the loop converts: a truthy value under a key that does not    *)
(* end with "_name".                                                       *)
converted_keys(point_data) ==
    SelectSeq(DictKeys(point_data),
              LAMBDA k : ~endswith_name(k) /\ DictGet(point_data, k) # <<>>)

bezier_raises(point_data) ==
    \E i \in 1..Len(converted_keys(point_data)) :
        LET curves == DictGet(point_data, converted_keys(point_data)[i])
        IN  \E j \in 1..Len(curves) : bezier_curve_raises(curves[j][1], curves[j][2])

calculate_bezier_control_points(point_data) ==
    LET keys == converted_keys(point_data)
    IN  [i \in 1..Len(keys) |->
            [key |-> keys[i],
             value |-> LET curves == DictGet(point_data, keys[i])
                       IN  [j \in 1..Len(curves) |->
                               calculate_bezier_curve(curves[j][1], curves[j][2])]]]

CalculateBezierControlPoints ==
    /\ pc = "bezier"
    /\ IF bezier_raises(path_points)
       THEN /\ pc' = "raised"
            /\ exception' = "TypeError"
            /\ UNCHANGED bezier
       ELSE /\ bezier' = calculate_bezier_control_points(path_points)
            /\ pc' = "markers"
            /\ UNCHANGED exception
    /\ UNCHANGED <<group_list, mesh_size, elements, groups, path_points, datapoints,
                   markers, svg_string, files>>
    /\ UNCHANGED curveVars

-----------------------------------------------------------------------------
(* _calculate_markers                                                      *)

probable_group_names == <<"marker", "markers">>

(* The loop over probable_group_names leaves a valid markers_group exactly *)
(* when one of the names is the name of a group.                           *)
markers_group_valid(gl) ==
    \E p \in 1..Len(probable_group_names) :
        \E g \in 1..Len(gl) : gl[g] = probable_group_names[p]

RandMin == 1

RandMax == 99999

(* f"{rand_num:0=5}"                                                       *)
Pad5(n) ==
    IF n < 10 THEN "0000" \o ToString(n)
    ELSE IF n < 100 THEN "000" \o ToString(n)
    ELSE IF n < 1000 THEN "00" \o ToString(n)
    ELSE IF n < 10000 THEN "0" \o ToString(n)
    ELSE ToString(n)

(* What the marker_data_name and marker_data_id fields hold for a          *)
(* datapoint, when the field exists.                                       *)
evaluateString_name(identifier) == "marker name " \o ToString(identifier)

evaluateString_id(identifier) == "UBERON:000" \o ToString(identifier)

(* The body of the while loop for the datapoint at position i (from 0).    *)
marker_of(datapoint, i, name_field_valid, id_field_valid, rand_num) ==
    LET name == IF name_field_valid THEN evaluateString_name(datapoint.identifier)
                ELSE "Unnamed marker " \o ToString(i + 1)
        onto_id == IF id_field_valid THEN evaluateString_id(datapoint.identifier)
                   ELSE "UBERON:99" \o Pad5(rand_num)
    IN  <<"marker_" \o ToString(datapoint.identifier), Slice2(datapoint.values),
          name, onto_id>>

CalculateMarkers ==
    /\ pc = "markers"
    /\ IF markers_group_valid(group_list)
       THEN \E count \in 0..MaxMarkers, name_field_valid \in BOOLEAN,
               id_field_valid \in BOOLEAN :
              \E rand_num \in [1..count -> {RandMin, RandMax}] :
                /\ datapoints' = [i \in 1..count |->
                                    [identifier |-> i,
                                     values |-> <<R(10 * i), R(20 * i), R(0)>>]]
                /\ markers' = [i \in 1..count |->
                                 marker_of(datapoints'[i], i - 1, name_field_valid,
                                           id_field_valid, rand_num[i])]
       ELSE /\ datapoints' = <<>>
            /\ markers' = <<>>
    /\ pc' = "svg"
    /\ UNCHANGED <<group_list, mesh_size, elements, groups, path_points, bezier,
                   svg_string, files, exception>>
    /\ UNCHANGED curveVars

-----------------------------------------------------------------------------
(* _write_into_svg_format.  The SVG text is the sequence of its elements'  *)
(* tags, each with the attributes and the text the code formats into it.   *)

SvgLine(tag, indent, id, text, d) ==
    [tag |-> tag, indent |-> indent, id |-> id, text |-> text, d |-> d]

(* _write_svg_bezier_path: one <path d="M b0 C b1, b2, b3"> per curve.     *)
write_svg_bezier_path(bezier_path, indent) ==
    [i \in 1..Len(bezier_path) |-> SvgLine("path", indent, "", "", bezier_path[i])]

(* The loop over bezier_data, from entry i on.                             *)
RECURSIVE svg_groups_count_ungrouped(_, _, _)
svg_groups_count_ungrouped(bezier_data, i, acc) ==
    IF i > Len(bezier_data) THEN acc
    ELSE LET group_name == bezier_data[i].key
             title_count == acc.title_count + 1
         IN  svg_groups_count_ungrouped(bezier_data, i + 1,
                 IF group_name = "ungrouped"
                 THEN [title_count |-> title_count,
                       svg |-> acc.svg \o write_svg_bezier_path(bezier_data[i].value, "  ")]
                 ELSE [title_count |-> title_count,
                       svg |-> acc.svg
                               \o <<SvgLine("g", "  ", "", "", <<>>),
                                    SvgLine("title", "    ", "title" \o ToString(title_count),
                                            ".id(" \o group_name \o "_name)", <<>>)>>
                               \o write_svg_bezier_path(bezier_data[i].value, "    ")
                               \o <<SvgLine("/g", "  ", "", "", <<>>)>>])

RECURSIVE svg_groups(_, _, _)
svg_groups(bezier_data, i, acc) ==
    IF i > Len(bezier_data) THEN acc
    ELSE LET group_name == bezier_data[i].key
             title_count == acc.title_count + 1
         IN  svg_groups(bezier_data, i + 1,
                 IF group_name = "ungrouped"
                 THEN [title_count |-> acc.title_count,
                       svg |-> acc.svg \o write_svg_bezier_path(bezier_data[i].value, "  ")]
                 ELSE [title_count |-> title_count,
                       svg |-> acc.svg
                               \o <<SvgLine("g", "  ", "", "", <<>>),
                                    SvgLine("title", "    ", "title" \o ToString(title_count),
                                            ".id(" \o group_name \o "_name)", <<>>)>>
                               \o write_svg_bezier_path(bezier_data[i].value, "    ")
                               \o <<SvgLine("/g", "  ", "", "", <<>>)>>])

(* The loop over markers, from marker i on.                                *)
RECURSIVE svg_markers(_, _, _)
svg_markers(marker_data, i, acc) ==
    IF i > Len(marker_data) THEN acc
    ELSE LET marker == marker_data[i]
             title_count == acc.title_count + 1
         IN  svg_markers(marker_data, i + 1,
                 [title_count |-> title_count,
                  svg |-> acc.svg
                          \o <<SvgLine("circle", "  ", "", "", marker[2]),
                               SvgLine("title", "    ", "title" \o ToString(title_count),
                                       ".id(" \o marker[1] \o ")", <<>>),
                               SvgLine("/circle", "  ", "", "", <<>>)>>])

write_into_svg_format(bezier_data, marker_data) ==
    LET start == [title_count |-> 0, svg |-> <<SvgLine("svg", "", "", "", <<>>)>>]
        after_groups == svg_groups(bezier_data, 1, start)
        after_markers == svg_markers(marker_data, 1, after_groups)
    IN  after_markers.svg \o <<SvgLine("/svg", "", "", "", <<>>)>>

WriteIntoSvgFormat ==
    /\ pc = "svg"
    /\ svg_string' = write_into_svg_format(bezier, markers)
    /\ pc' = "write"
    /\ UNCHANGED <<group_list, mesh_size, elements, groups, path_points, bezier,
                   datapoints, markers, files, exception>>
    /\ UNCHANGED curveVars

-----------------------------------------------------------------------------
(* Lines 78-100: the features and the two files.                           *)

RECURSIVE name_features(_, _, _)
name_features(point_data, i, features) ==
    IF i > Len(point_data) THEN features
    ELSE LET path_key == point_data[i].key
         IN  name_features(point_data, i + 1,
                 IF endswith_name(path_key)
                 THEN DictSet(features, path_key,
                              [name |-> point_data[i].value, type |-> "nerve"])
                 ELSE features)

RECURSIVE marker_features(_, _, _)
marker_features(marker_data, i, features) ==
    IF i > Len(marker_data) THEN features
    ELSE LET marker == marker_data[i]
         IN  marker_features(marker_data, i + 1,
                 DictSet(features, marker[1],
                         [name |-> marker[3], models |-> marker[4], type |-> "nerve"]))

features_without_names(point_data, marker_data) ==
    marker_features(marker_data, 1, <<>>)

features_of(point_data, marker_data) ==
    marker_features(marker_data, 1, name_features(point_data, 1, <<>>))

(* json.dump(..., sort_keys=True): the object a dict is written as, which  *)
(* does not depend on the insertion order.                                 *)
json_object(d) == [k \in {d[i].key : i \in 1..Len(d)} |-> DictGet(d, k)]

prefix == "ArgonSceneExporterWavefrontSVG"

svg_file == prefix \o ".svg"

properties_file == "properties.json"

WriteFiles ==
    /\ pc = "write"
    /\ LET properties == [features |-> json_object(features_of(path_points, markers))]
       IN  files' = [f \in {svg_file, properties_file} |->
                        IF f = svg_file THEN [text |-> svg_string, json |-> <<>>]
                        ELSE [text |-> <<>>, json |-> properties]]
    /\ pc' = "done"
    /\ UNCHANGED <<group_list, mesh_size, elements, groups, path_points, bezier,
                   datapoints, markers, svg_string, exception>>
    /\ UNCHANGED curveVars

-----------------------------------------------------------------------------
(* One export.                                                             *)

GroupNames == {"marker", "markers", "nerve"}

(* get_group_list: the groups of a fieldmodule have distinct names.        *)
GroupLists ==
    {gl \in UNION {[1..n -> GroupNames] : n \in 0..MaxGroups} :
        \A i, j \in 1..Len(gl) : gl[i] = gl[j] => i = j}

Init ==
    /\ pc = "analyze"
    /\ group_list \in GroupLists
    /\ mesh_size \in 0..MaxElements
    /\ elements = <<>>
    /\ groups = <<>>
    /\ path_points = <<>>
    /\ bezier = <<>>
    /\ datapoints = <<>>
    /\ markers = <<>>
    /\ svg_string = <<>>
    /\ files = <<>>
    /\ exception = ""
    /\ CurveIdle

Next ==
    \/ AnalyzeStart
    \/ AnalyzeElement
    \/ AnalyzeReturn
    \/ CalculateBezierControlPoints
    \/ CalculateMarkers
    \/ WriteIntoSvgFormat
    \/ WriteFiles

Spec == Init /\ [][Next]_vars

-----------------------------------------------------------------------------
(* C1: for every segment [(h0, v0), (h1, v1)] the call returns, over the   *)
(* first two components only, b0 = h0, b3 = h1, b1 = h0 - v0/3 and         *)
(* b2 = h1 + v1/3.  The thirds are stated without division:                *)
(* 3 * (h0 - b1) = v0 and 3 * (b2 - h1) = v1.                              *)
C1_BezierControlPoints ==
    bpc = "returned" =>
        LET h0 == <<pt_1[1].v[1], pt_1[1].v[2]>>
            v0 == <<pt_1[2].v[1], pt_1[2].v[2]>>
            h1 == <<pt_2[1].v[1], pt_2[1].v[2]>>
            v1 == <<pt_2[2].v[1], pt_2[2].v[2]>>
        IN  /\ Len(curve) = 4
            /\ curve[1] = h0
            /\ curve[4] = h1
            /\ Len(curve[2]) = 2
            /\ Len(curve[3]) = 2
            /\ \A c \in 1..2 :
                 /\ RMul(R(3), RSub(h0[c], curve[2][c])) = v0[c]
                 /\ RMul(R(3), RSub(curve[3][c], h1[c])) = v1[c]

(* A three-component segment with tangents that are not multiples of 3    *)
(* has been converted.                                                     *)
C1_Witness ==
    /\ bpc = "returned"
    /\ Len(pt_1[1].v) = 3
    /\ pt_1[2].v[1] = R(10)
    /\ pt_2[2].v[2] = R(10)
    /\ curve[2][1] # curve[1][1]

(* The scenario of C2: end 1 at (0,0) with tangent (3,0), end 2 at (10,0)  *)
(* with tangent (3,0).                                                     *)
IsScenario ==
    /\ bpc = "returned"
    /\ Slice2(pt_1[1].v) = <<R(0), R(0)>>
    /\ Slice2(pt_1[2].v) = <<R(3), R(0)>>
    /\ Slice2(pt_2[1].v) = <<R(10), R(0)>>
    /\ Slice2(pt_2[2].v) = <<R(3), R(0)>>

(* C2 as claimed: the scenario yields b0=(0,0), b1=(-1,0), b2=(9,0),       *)
(* b3=(10,0).                                                              *)
C2_ScenarioAsClaimed ==
    IsScenario =>
        curve = << <<R(0), R(0)>>, <<R(-1), R(0)>>, <<R(9), R(0)>>, <<R(10), R(0)>> >>

(* C2 as amended: the scenario yields b0=(0,0), b1=(-1,0), b2=(11,0),      *)
(* b3=(10,0).                                                              *)
C2_ScenarioAmended ==
    IsScenario =>
        curve = << <<R(0), R(0)>>, <<R(-1), R(0)>>, <<R(11), R(0)>>, <<R(10), R(0)>> >>

(* The scenario's segment has been converted.                              *)
C2_Witness == IsScenario /\ Len(pt_1[1].v) = 2

-----------------------------------------------------------------------------
(* What the claims about one export speak of.                              *)

(* The template has exactly 4 functions, each with exactly 1 term.         *)
ShapeOk(eft) == Len(eft) = 4 /\ \A f \in 1..4 : eft[f].terms = 1

AcceptedElements == {i \in 1..Len(elements) : ShapeOk(elements[i].eft)}

(* _analyze_elements has returned its mapping.                             *)
AnalysisReturned == pc \notin {"analyze", "elements"} /\ exception # "KeyError"

Occurrences(s, list) == Cardinality({j \in 1..Len(list) : list[j] = s})

(* The accepted elements with segment s that the group at index g (from 0) *)
(* contains, and those no group contains.                                  *)
ContainedWithSegment(s, g) ==
    {i \in AcceptedElements : segment_of(elements[i]) = s /\ g \in elements[i].containing}

UncontainedWithSegment(s) ==
    {i \in AcceptedElements : segment_of(elements[i]) = s /\ elements[i].containing = {}}

MissingValue(i) ==
    LET seg == segment_of(elements[i])
    IN  seg[1][1].none \/ seg[1][2].none \/ seg[2][1].none \/ seg[2][2].none

(* C3: once the analyzer has processed a non-empty mesh, every group G not *)
(* named "marker" has a label whose list holds the segment of each         *)
(* accepted element exactly as often as G contains an accepted element     *)
(* with that segment, and nothing else; "ungrouped" holds exactly the      *)
(* segments of the accepted elements no group contains.                    *)
C3_GroupMembership ==
    (AnalysisReturned /\ mesh_size > 0) =>
        /\ \A g \in 0..(Len(group_list) - 1) :
             group_list[g + 1] # "marker" =>
                \E k \in 1..Len(path_points) :
                    LET label == path_points[k].key
                    IN  /\ DictHas(path_points, label \o "_name")
                        /\ DictGet(path_points, label \o "_name") = group_list[g + 1]
                        /\ LET list == path_points[k].value
                           IN  /\ \A e \in AcceptedElements :
                                    Occurrences(segment_of(elements[e]), list)
                                      = Cardinality(ContainedWithSegment(
                                                        segment_of(elements[e]), g))
                               /\ Len(list) = Cardinality({i \in AcceptedElements :
                                                              g \in elements[i].containing})
        /\ DictHas(path_points, "ungrouped")
        /\ LET list == DictGet(path_points, "ungrouped")
           IN  /\ \A e \in AcceptedElements :
                    Occurrences(segment_of(elements[e]), list)
                      = Cardinality(UncontainedWithSegment(segment_of(elements[e])))
               /\ Len(list) = Cardinality({i \in AcceptedElements :
                                              elements[i].containing = {}})

(* An element contained in two overlapping groups and an element contained *)
(* in none have been analyzed, and the export has completed.               *)
C3_Witness ==
    /\ pc = "done"
    /\ \E i, j \in AcceptedElements :
         /\ Cardinality(elements[i].containing) = 2
         /\ elements[j].containing = {}

(* C4: the iteration that reads an element whose template is not 4         *)
(* functions of 1 term each leaves every list as it was, raises nothing    *)
(* and stays in the loop.                                                  *)
C4_RejectedElementAddsNothing ==
    [][(/\ pc = "elements"
        /\ Len(elements') = Len(elements) + 1
        /\ ~ShapeOk(elements'[Len(elements')].eft))
       => (groups' = groups /\ pc' = "elements" /\ exception' = "")]_vars

(* A rejected element was followed by an accepted one, whose segment is    *)
(* the only one in the mapping returned.                                   *)
C4_Witness ==
    /\ pc = "done"
    /\ Len(elements) = 2
    /\ ~ShapeOk(elements[1].eft)
    /\ Len(elements[1].eft) = 2
    /\ ShapeOk(elements[2].eft)
    /\ DictGet(path_points, "ungrouped") = <<segment_of(elements[2])>>

(* C5 as claimed: when the mapping the analyzer returned holds a segment   *)
(* with a missing value, the export does not abort.                        *)
C5_MissingValueDoesNotAbort ==
    (AnalysisReturned /\ \E i \in AcceptedElements : MissingValue(i)) => pc # "raised"

(* C6 as claimed: when the group named "marker" contains an accepted       *)
(* element, the analyzer does not raise.                                   *)
C6_MarkerGroupMemberDoesNotRaise ==
    (\E i \in AcceptedElements :
        \E g \in elements[i].containing : group_list[g + 1] = "marker")
      => exception # "KeyError"

(* C7: for a mesh of size 0 the analyzer returns an empty mapping, the     *)
(* export raises nothing, and the SVG written holds the root element and   *)
(* one circle with its title per marker, and no path.                      *)
MarkerLines(text) == SelectSeq(text, LAMBDA line : line.tag = "circle")

C7_EmptyMesh ==
    mesh_size = 0 =>
        /\ pc # "raised"
        /\ exception = ""
        /\ groups = <<>>
        /\ path_points = <<>>
        /\ pc \in {"svg", "write", "done"} => bezier = <<>>
        /\ pc \in {"write", "done"} =>
             /\ Len(svg_string) = 2 + 3 * Len(markers)
             /\ svg_string[1].tag = "svg"
             /\ svg_string[Len(svg_string)].tag = "/svg"
             /\ \A i \in 1..Len(svg_string) :
                  svg_string[i].tag \in {"svg", "circle", "title", "/circle", "/svg"}
             /\ Len(MarkerLines(svg_string)) = Len(markers)
        /\ pc = "done" =>
             /\ DOMAIN files = {svg_file, properties_file}
             /\ files[svg_file].text = svg_string

(* An empty mesh with two groups and a marker has been exported.           *)
C7_Witness ==
    /\ mesh_size = 0
    /\ pc = "done"
    /\ Len(group_list) = 2
    /\ Len(markers) >= 1

(* C8 as claimed: the k-th group not named "marker", in enumeration order, *)
(* has the label group_<k>.                                                *)
NotMarker == SelectSeq(group_list, LAMBDA name : name # "marker")

C8_LabelsSequentialSkippingMarker ==
    (AnalysisReturned /\ mesh_size > 0) =>
        \A k \in 1..Len(NotMarker) :
            /\ DictHas(path_points, "group_" \o ToString(k))
            /\ DictHas(path_points, "group_" \o ToString(k) \o "_name")
            /\ DictGet(path_points, "group_" \o ToString(k) \o "_name") = NotMarker[k]

(* C9: the title ids of the SVG are title1 .. titleN in order of           *)
(* appearance, N being the number of groups emitted other than "ungrouped" *)
(* plus the number of markers; the first titles are those of the groups,   *)
(* each inside its <g>, the rest those of the markers, each inside its     *)
(* circle.                                                                 *)
TitlePositions ==
    SelectSeq([i \in 1..Len(svg_string) |-> i], LAMBDA i : svg_string[i].tag = "title")

EmittedGroups == SelectSeq(DictKeys(bezier), LAMBDA k : k # "ungrouped")

C9_TitleIds ==
    pc \in {"write", "done"} =>
        /\ Len(TitlePositions) = Len(EmittedGroups) + Len(markers)
        /\ \A n \in 1..Len(TitlePositions) :
             LET title == svg_string[TitlePositions[n]]
                 parent == svg_string[TitlePositions[n] - 1]
             IN  /\ title.id = "title" \o ToString(n)
                 /\ IF n <= Len(EmittedGroups)
                    THEN /\ parent.tag = "g"
                         /\ title.text = ".id(" \o EmittedGroups[n] \o "_name)"
                    ELSE /\ parent.tag = "circle"
                         /\ title.text
                              = ".id(" \o markers[n - Len(EmittedGroups)][1] \o ")"

(* An SVG with ungrouped paths, a titled group and a marker was written.   *)
C9_Witness ==
    /\ pc = "done"
    /\ DictHas(bezier, "ungrouped")
    /\ bezier[1].key = "ungrouped"
    /\ Len(EmittedGroups) >= 1
    /\ Len(markers) >= 1

(* C10: when the export has completed, every title of the SVG file refers  *)
(* to a key of the "features" object of properties.json.                   *)
C10_TitlesReferToFeatures ==
    pc = "done" =>
        LET text == files[svg_file].text
            features == files[properties_file].json.features
        IN  \A i \in 1..Len(text) :
                text[i].tag = "title" =>
                    \E key \in DOMAIN features : text[i].text = ".id(" \o key \o ")"

(* A file with a group title and a marker title was written.               *)
C10_Witness ==
    /\ pc = "done"
    /\ \E i, j \in 1..Len(files[svg_file].text) :
         /\ files[svg_file].text[i].tag = "g"
         /\ files[svg_file].text[j].tag = "circle"
    /\ Cardinality(DOMAIN files[properties_file].json.features) >= 2


====
